---------------------------- MODULE Spec2Model ----------------------------
(***************************************************************************)
(* Task-dependency scheduler of backend/main.py: the stored tables, the    *)
(* three algorithms (has_cycle, topological_sort, allocate_resources) and  *)
(* the request handlers that call them.                                    *)
(*                                                                         *)
(* Ids are the autoincrement primary keys: the id of a row is its index in *)
(* the sequence that models its table, and a query without ORDER BY        *)
(* returns rows in that order.  Times are integer minutes.                 *)
(*                                                                         *)
(* response is the answer to the last request.  threads holds the requests *)
(* that are in progress when handlers run concurrently (the endpoints are  *)
(* plain def functions, which FastAPI runs on a thread pool, each with its *)
(* own session); it is empty where requests are handled one at a time.     *)
(***************************************************************************)
EXTENDS Integers, Sequences, FiniteSets, TLC

VARIABLES projects, tasks, task_dependencies, resources, task_allocations,
          response, threads

vars == <<projects, tasks, task_dependencies, resources, task_allocations,
          response, threads>>

(***************************************************************************)
(* Bounds of the model.                                                    *)
(***************************************************************************)
MaxProjects == 2
MaxTasks == 3
MaxDeps == 1
MaxAllocCalls == 2

(***************************************************************************)
(* Values of the source.                                                   *)
(***************************************************************************)
DefaultPriority == 3
EMPLOYEE == "employee"
EQUIPMENT == "equipment"

NoResponse == [op |-> "none", args |-> <<>>, status |-> 0, detail |-> "",
               body |-> <<>>]

Reply(op, args, status, detail, body) ==
    [op |-> op, args |-> args, status |-> status, detail |-> detail,
     body |-> body]

Task(project_id, estimated_duration, priority, required_skills) ==
    [project_id |-> project_id, estimated_duration |-> estimated_duration,
     priority |-> priority, required_skills |-> required_skills]

TaskDependency(predecessor_task_id, successor_task_id) ==
    [predecessor_task_id |-> predecessor_task_id,
     successor_task_id |-> successor_task_id]

Resource(type, skills, available) ==
    [type |-> type, skills |-> skills, available |-> available]

TaskAllocation(task_id, resource_id, scheduled_start, scheduled_end) ==
    [task_id |-> task_id, resource_id |-> resource_id,
     scheduled_start |-> scheduled_start, scheduled_end |-> scheduled_end]

(***************************************************************************)
(* Sequence helpers.                                                       *)
(***************************************************************************)
Range(seq) == {seq[i] : i \in 1..Len(seq)}

(***************************************************************************)
(* The two queries has_cycle and topological_sort open with.               *)
(***************************************************************************)
RECURSIVE tasks_from(_, _, _)
\* The ids >= from of the tasks of the project, ascending.
tasks_from(T, project_id, from) ==
    IF from > Len(T) THEN <<>>
    ELSE IF T[from].project_id = project_id
    THEN <<from>> \o tasks_from(T, project_id, from + 1)
    ELSE tasks_from(T, project_id, from + 1)

\* db.query(Task).filter(Task.project_id == project_id).all(): the task ids
project_tasks(T, project_id) == tasks_from(T, project_id, 1)

\* db.query(TaskDependency).join(Task, predecessor_task_id == Task.id)
\*   .filter(Task.project_id == project_id).all()
project_dependencies(T, D, project_id) ==
    LET Joined(d) == /\ d.predecessor_task_id \in 1..Len(T)
                     /\ T[d.predecessor_task_id].project_id = project_id
    IN  SelectSeq(D, Joined)

\* graph = {task.id: [] for task in tasks}, then one append per dependency
adjacency(T, D, project_id) ==
    LET deps == project_dependencies(T, D, project_id)
        Succ(id) ==
            LET From(d) == d.predecessor_task_id = id
                mine == SelectSeq(deps, From)
            IN  [i \in 1..Len(mine) |-> mine[i].successor_task_id]
    IN  [id \in Range(project_tasks(T, project_id)) |-> Succ(id)]

\* graph.get(node, [])
graph_get(graph, node) ==
    IF node \in DOMAIN graph THEN graph[node] ELSE <<>>

(***************************************************************************)
(* has_cycle: depth-first search with a visited set and a recursion stack. *)
(***************************************************************************)
\* Variant: a neighbour that is already visited counts as a cycle.
on_rec_stack_any_visited(neighbor, st) == neighbor \in st.visited

\* elif neighbor in rec_stack: return True
on_rec_stack(neighbor, st) == neighbor \in st.rec_stack

RECURSIVE dfs(_, _, _), dfs_neighbors(_, _, _, _)
\* dfs(node): st carries visited and rec_stack, found is the return value
dfs(graph, node, st) ==
    LET entered == [visited |-> st.visited \cup {node},
                    rec_stack |-> st.rec_stack \cup {node},
                    found |-> FALSE]
        after == dfs_neighbors(graph, node, 1, entered)
    IN  IF after.found THEN after
        ELSE [after EXCEPT !.rec_stack = @ \ {node}]

\* for neighbor in graph.get(node, []), from the i-th neighbour on
dfs_neighbors(graph, node, i, st) ==
    LET neighbors == graph_get(graph, node)
    IN  IF i > Len(neighbors) THEN st
        ELSE LET neighbor == neighbors[i]
             IN  IF neighbor \notin st.visited
                 THEN LET sub == dfs(graph, neighbor, st)
                      IN  IF sub.found THEN sub
                          ELSE dfs_neighbors(graph, node, i + 1, sub)
                 ELSE IF on_rec_stack(neighbor, st)
                 THEN [st EXCEPT !.found = TRUE]
                 ELSE dfs_neighbors(graph, node, i + 1, st)

RECURSIVE dfs_roots(_, _, _, _)
\* for task_id in graph: if task_id not in visited: if dfs(task_id): ...
dfs_roots(graph, ids, i, st) ==
    IF i > Len(ids) THEN FALSE
    ELSE IF ids[i] \notin st.visited
    THEN LET sub == dfs(graph, ids[i], st)
         IN  IF sub.found THEN TRUE ELSE dfs_roots(graph, ids, i + 1, sub)
    ELSE dfs_roots(graph, ids, i + 1, st)

\* Variant: visited survives from one call of has_cycle to the next.
dfs_initial_kept ==
    [visited |-> IF response.op = "has_cycle" THEN 1..Len(tasks) ELSE {},
     rec_stack |-> {}, found |-> FALSE]

\* visited = set(); rec_stack = set()
dfs_initial == [visited |-> {}, rec_stack |-> {}, found |-> FALSE]

has_cycle(T, D, project_id) ==
    dfs_roots(adjacency(T, D, project_id), project_tasks(T, project_id), 1,
              dfs_initial)

(***************************************************************************)
(* topological_sort: Kahn's algorithm, the queue re-sorted by priority     *)
(* before every pop.  It returns the ids of the tasks in output order.     *)
(***************************************************************************)
\* Variant: the in-degree is counted at the predecessor of each edge.
in_degree_of_predecessor(T, D, project_id) ==
    LET deps == project_dependencies(T, D, project_id)
    IN  [id \in Range(project_tasks(T, project_id)) |->
            Cardinality({i \in 1..Len(deps) :
                            deps[i].predecessor_task_id = id})]

\* Variant: an edge from a task to itself is not counted.
in_degree_of_no_self_loop(T, D, project_id) ==
    LET deps == project_dependencies(T, D, project_id)
    IN  [id \in Range(project_tasks(T, project_id)) |->
            Cardinality({i \in 1..Len(deps) :
                            /\ deps[i].successor_task_id = id
                            /\ deps[i].predecessor_task_id # id})]

\* in_degree = {task.id: 0 ...}; in_degree[dep.successor_task_id] += 1
\* (a successor outside the project would raise KeyError; create_dependency
\* stores no such edge)
in_degree_of(T, D, project_id) ==
    LET deps == project_dependencies(T, D, project_id)
    IN  [id \in Range(project_tasks(T, project_id)) |->
            Cardinality({i \in 1..Len(deps) : deps[i].successor_task_id = id})]

\* if in_degree[tid] == 0
in_degree_zero(n) == n = 0

\* Variant: the lowest priority value first.
sort_key_ascending(T, tid) == T[tid].priority

\* key=lambda tid: -task_map[tid].priority
sort_key(T, tid) == - T[tid].priority

RECURSIVE queue_sort(_, _)
\* queue.sort(key=...): stable, ascending in the key
queue_sort(T, queue) ==
    IF queue = <<>> THEN <<>>
    ELSE LET least == CHOOSE k \in {sort_key(T, queue[i]) : i \in 1..Len(queue)} :
                        \A i \in 1..Len(queue) : k <= sort_key(T, queue[i])
             first == CHOOSE i \in 1..Len(queue) :
                        /\ sort_key(T, queue[i]) = least
                        /\ \A j \in 1..(i - 1) : sort_key(T, queue[j]) # least
             rest == [j \in 1..(Len(queue) - 1) |->
                        IF j < first THEN queue[j] ELSE queue[j + 1]]
         IN  <<queue[first]>> \o queue_sort(T, rest)

RECURSIVE kahn_neighbors(_, _, _)
\* for neighbor in graph[current]: in_degree[neighbor] -= 1; if it is 0,
\* queue.append(neighbor).  st carries in_degree and queue.
kahn_neighbors(neighbors, i, st) ==
    IF i > Len(neighbors) THEN st
    ELSE LET neighbor == neighbors[i]
             degree == st.in_degree[neighbor] - 1
         IN  kahn_neighbors(neighbors, i + 1,
                [in_degree |-> [st.in_degree EXCEPT ![neighbor] = degree],
                 queue |-> IF in_degree_zero(degree)
                           THEN Append(st.queue, neighbor) ELSE st.queue])

RECURSIVE kahn(_, _, _, _)
\* Variant: the in-degrees of the successors of the popped task are left
\* as they are.
kahn_no_relax(T, graph, st, sorted_tasks) ==
    IF st.queue = <<>> THEN sorted_tasks
    ELSE LET sorted_queue == queue_sort(T, st.queue)
         IN  kahn(T, graph,
                  [in_degree |-> st.in_degree, queue |-> Tail(sorted_queue)],
                  Append(sorted_tasks, Head(sorted_queue)))

\* while queue: sort, pop(0), append to sorted_tasks, relax the successors
kahn(T, graph, st, sorted_tasks) ==
    IF st.queue = <<>> THEN sorted_tasks
    ELSE LET sorted_queue == queue_sort(T, st.queue)
             current == Head(sorted_queue)
         IN  kahn(T, graph,
                  kahn_neighbors(graph[current], 1,
                        [in_degree |-> st.in_degree,
                         queue |-> Tail(sorted_queue)]),
                  Append(sorted_tasks, current))

topological_sort(T, D, project_id) ==
    LET in_degree == in_degree_of(T, D, project_id)
        ids == project_tasks(T, project_id)
        Ready(tid) == in_degree_zero(in_degree[tid])
    IN  kahn(T, adjacency(T, D, project_id),
             [in_degree |-> in_degree, queue |-> SelectSeq(ids, Ready)],
             <<>>)

(***************************************************************************)
(* allocate_resources: one allocation per task of the topological order,   *)
(* on one clock that starts at now.                                        *)
(***************************************************************************)
\* Variant: the availability flag is not looked at.
is_available_always(resource) == TRUE

\* Resource.available == True
is_available(resource) == resource.available

RECURSIVE resources_from(_, _)
\* db.query(Resource).filter(Resource.available == True).all(): the ids
resources_from(R, from) ==
    IF from > Len(R) THEN <<>>
    ELSE IF is_available(R[from])
    THEN <<from>> \o resources_from(R, from + 1)
    ELSE resources_from(R, from + 1)

available_resources(R) == resources_from(R, 1)

\* Variant: resources of every type are checked for their skills.
is_skill_matched_any_type(resource) == TRUE

\* if resource.type == ResourceType.EMPLOYEE
is_skill_matched_type(resource) == resource.type = EMPLOYEE

\* Variant: one common skill is enough.
skills_match_any(resource, task) ==
    \/ task.required_skills = {}
    \/ task.required_skills \cap resource.skills # {}

\* all(skill in resource.skills for skill in task.required_skills)
skills_match(resource, task) == task.required_skills \subseteq resource.skills

RECURSIVE first_match(_, _, _, _)
\* for resource in resources: the first employee with matching skills, or
\* 0 for best_resource = None
first_match(R, available, i, task) ==
    IF i > Len(available) THEN 0
    ELSE IF /\ is_skill_matched_type(R[available[i]])
            /\ skills_match(R[available[i]], task)
    THEN available[i]
    ELSE first_match(R, available, i + 1, task)

\* Variant: the fallback is the last available resource.
fallback_resource_last(available) == available[Len(available)]

\* best_resource = resources[0]
fallback_resource(available) == available[1]

best_resource(R, available, task) ==
    LET match == first_match(R, available, 1, task)
    IN  IF match = 0 THEN fallback_resource(available) ELSE match

\* Variant: the duration is taken as hours.
scheduled_end_hours(current_time, task) ==
    current_time + 60 * task.estimated_duration

\* scheduled_end = current_time + timedelta(minutes=task.estimated_duration)
scheduled_end_of(current_time, task) ==
    current_time + task.estimated_duration

RECURSIVE allocate_tasks(_, _, _, _, _, _)
\* for task in sorted_tasks: ..., from the i-th task on; returns allocations
allocate_tasks(T, R, available, sorted_tasks, i, current_time) ==
    IF i > Len(sorted_tasks) THEN <<>>
    ELSE LET task_id == sorted_tasks[i]
             scheduled_start == current_time
             scheduled_end == scheduled_end_of(current_time, T[task_id])
             allocation == TaskAllocation(task_id,
                                best_resource(R, available, T[task_id]),
                                scheduled_start, scheduled_end)
         IN  <<allocation>> \o allocate_tasks(T, R, available, sorted_tasks,
                                              i + 1, scheduled_end)

\* The outcome of allocate_resources: the HTTPException it raises, or the
\* allocations it adds and commits.
allocate_resources(T, D, R, project_id, now) ==
    LET sorted_tasks == topological_sort(T, D, project_id)
        available == available_resources(R)
    IN  IF available = <<>>
        THEN [status |-> 400, detail |-> "No available resources",
              allocations |-> <<>>]
        ELSE [status |-> 200, detail |-> "",
              allocations |-> allocate_tasks(T, R, available, sorted_tasks,
                                             1, now)]

(***************************************************************************)
(* The SQLAlchemy session, as far as create_dependency uses it: db.add     *)
(* makes a row pending, db.commit writes the pending rows to the table,    *)
(* db.rollback drops the rows that are still pending.                      *)
(***************************************************************************)
db_commit(table, pending) == table \o pending

db_rollback(table, pending) == table

(***************************************************************************)
(* Request handlers.                                                       *)
(***************************************************************************)
\* Variant: tasks of different projects may be linked.
different_projects_never(pred_task, succ_task) == FALSE

\* if pred_task.project_id != succ_task.project_id
different_projects(pred_task, succ_task) ==
    pred_task.project_id # succ_task.project_id

create_project ==
    /\ projects < MaxProjects
    /\ projects' = projects + 1
    /\ response' = Reply("create_project", <<>>, 200, "", projects + 1)
    /\ UNCHANGED <<threads, tasks, task_dependencies, resources,
                   task_allocations>>

create_task(project_id, estimated_duration, priority, required_skills) ==
    IF project_id \notin 1..projects
    THEN /\ response' = Reply("create_task", <<project_id>>, 404,
                              "Project not found", <<>>)
         /\ UNCHANGED <<threads, projects, tasks, task_dependencies,
                        resources, task_allocations>>
    ELSE /\ Len(tasks) < MaxTasks
         /\ tasks' = Append(tasks, Task(project_id, estimated_duration,
                                        priority, required_skills))
         /\ response' = Reply("create_task", <<project_id>>, 200, "",
                              Len(tasks) + 1)
         /\ UNCHANGED <<threads, projects, task_dependencies, resources,
                        task_allocations>>

update_task(task_id, estimated_duration, priority, required_skills) ==
    IF task_id \notin 1..Len(tasks)
    THEN /\ response' = Reply("update_task", <<task_id>>, 404,
                              "Task not found", <<>>)
         /\ UNCHANGED <<threads, projects, tasks, task_dependencies,
                        resources, task_allocations>>
    ELSE /\ tasks' = [tasks EXCEPT ![task_id] =
                         Task(@.project_id, estimated_duration, priority,
                              required_skills)]
         /\ response' = Reply("update_task", <<task_id>>, 200, "", task_id)
         /\ UNCHANGED <<threads, projects, task_dependencies, resources,
                        task_allocations>>

create_dependency(predecessor_task_id, successor_task_id) ==
    LET args == <<predecessor_task_id, successor_task_id>>
        found == /\ predecessor_task_id \in 1..Len(tasks)
                 /\ successor_task_id \in 1..Len(tasks)
    IN
    IF ~found
    THEN /\ response' = Reply("create_dependency", args, 404,
                              "One or both tasks not found", <<>>)
         /\ UNCHANGED <<threads, projects, tasks, task_dependencies,
                        resources, task_allocations>>
    ELSE IF different_projects(tasks[predecessor_task_id],
                               tasks[successor_task_id])
    THEN /\ response' = Reply("create_dependency", args, 400,
                              "Tasks must be in the same project", <<>>)
         /\ UNCHANGED <<threads, projects, tasks, task_dependencies,
                        resources, task_allocations>>
    ELSE /\ Len(task_dependencies) < MaxDeps
         /\ LET new_dep == TaskDependency(predecessor_task_id,
                                          successor_task_id)
                \* db.add(new_dep); db.commit()
                committed == db_commit(task_dependencies, <<new_dep>>)
            IN  IF has_cycle(tasks, committed,
                             tasks[predecessor_task_id].project_id)
                THEN \* db.rollback(): nothing is pending after the commit
                     /\ task_dependencies' = db_rollback(committed, <<>>)
                     /\ response' = Reply("create_dependency", args, 400,
                                "This dependency creates a cycle", <<>>)
                ELSE \* db.commit()
                     /\ task_dependencies' = db_commit(committed, <<>>)
                     /\ response' = Reply("create_dependency", args, 200,
                                "Dependency created successfully",
                                Len(committed))
         /\ UNCHANGED <<threads, projects, tasks, resources, task_allocations>>

auto_allocate(project_id, now) ==
    LET args == <<project_id, now>>
    IN
    IF project_id \notin 1..projects
    THEN /\ response' = Reply("auto_allocate", args, 404,
                              "Project not found", <<>>)
         /\ UNCHANGED <<threads, projects, tasks, task_dependencies,
                        resources, task_allocations>>
    ELSE IF has_cycle(tasks, task_dependencies, project_id)
    THEN /\ response' = Reply("auto_allocate", args, 400,
                "Cannot allocate: project has circular dependencies", <<>>)
         /\ UNCHANGED <<threads, projects, tasks, task_dependencies,
                        resources, task_allocations>>
    ELSE LET outcome == allocate_resources(tasks, task_dependencies,
                                           resources, project_id, now)
         IN  /\ Len(task_allocations) + Len(outcome.allocations)
                  <= MaxAllocCalls * Len(project_tasks(tasks, project_id))
             /\ task_allocations' = db_commit(task_allocations,
                                              outcome.allocations)
             /\ response' = Reply("auto_allocate", args, outcome.status,
                                  outcome.detail, outcome.allocations)
             /\ UNCHANGED <<threads, projects, tasks, task_dependencies,
                            resources>>

\* db.query(TaskAllocation).join(Task).filter(Task.project_id == project_id)
\* .all(): the allocations of the tasks of the project, in stored order
get_schedule(T, A, project_id) ==
    LET of_project(alloc) == T[alloc.task_id].project_id = project_id
    IN  SelectSeq(A, of_project)

(***************************************************************************)
(* Spec: dependency management on an initially empty database.  Tasks are  *)
(* created with the default priority.                                      *)
(***************************************************************************)
Init ==
    /\ projects = 0
    /\ tasks = <<>>
    /\ task_dependencies = <<>>
    /\ resources = <<>>
    /\ task_allocations = <<>>
    /\ response = NoResponse
    /\ threads = <<>>

Next ==
    \/ create_project
    \/ \E project_id \in 1..(projects + 1) :
          create_task(project_id, 1, DefaultPriority, {})
    \/ \E p \in 1..(Len(tasks) + 1), s \in 1..(Len(tasks) + 1) :
          create_dependency(p, s)

Spec == Init /\ [][Next]_vars

(***************************************************************************)
(* Direct calls of the two graph algorithms on the stored graph.           *)
(***************************************************************************)
Return(op, args, value) == Reply(op, args, 0, "returned", value)

run_has_cycle(project_id) ==
    /\ response' = Return("has_cycle", <<project_id>>,
                          has_cycle(tasks, task_dependencies, project_id))
    /\ UNCHANGED <<threads, projects, tasks, task_dependencies,
                   resources, task_allocations>>

run_topological_sort(project_id) ==
    /\ response' = Return("topological_sort", <<project_id>>,
                          topological_sort(tasks, task_dependencies,
                                           project_id))
    /\ UNCHANGED <<threads, projects, tasks, task_dependencies,
                   resources, task_allocations>>

(***************************************************************************)
(* SpecCycle: has_cycle on every dependency graph of one project within    *)
(* the bounds.  create_dependency stores every edge between tasks of a     *)
(* project it is given, so each of these graphs is a state of the tables.  *)
(***************************************************************************)
SeqsUpTo(S, n) == UNION {[1..m -> S] : m \in 0..n}

MaxCycleTasks == 3

MaxCycleDeps == 3

InitCycle ==
    /\ projects = 1
    /\ tasks \in SeqsUpTo({Task(1, 1, DefaultPriority, {})}, MaxCycleTasks)
    /\ task_dependencies \in
          SeqsUpTo({TaskDependency(p, s) : p, s \in 1..Len(tasks)},
                   MaxCycleDeps)
    /\ resources = <<>>
    /\ task_allocations = <<>>
    /\ response = NoResponse
    /\ threads = <<>>

NextCycle == run_has_cycle(1)

SpecCycle == InitCycle /\ [][NextCycle]_vars

(***************************************************************************)
(* SpecTopo: topological_sort on every dependency graph of one project     *)
(* within the bounds, the tasks differing in priority.                     *)
(***************************************************************************)
Priorities == {DefaultPriority, 5}

MaxTopoTasks == 3

MaxTopoDeps == 2

InitTopo ==
    /\ projects = 1
    /\ tasks \in SeqsUpTo({Task(1, 1, pr, {}) : pr \in Priorities},
                          MaxTopoTasks)
    /\ task_dependencies \in
          SeqsUpTo({TaskDependency(p, s) : p, s \in 1..Len(tasks)},
                   MaxTopoDeps)
    /\ resources = <<>>
    /\ task_allocations = <<>>
    /\ response = NoResponse
    /\ threads = <<>>

NextTopo == run_topological_sort(1)

SpecTopo == InitTopo /\ [][NextTopo]_vars

(***************************************************************************)
(* SpecAlloc: auto_allocate on every project within the bounds whose tasks *)
(* differ in duration and are linked by dependencies, with employees that   *)
(* have no skills.  estimated_duration is any integer the request carries. *)
(***************************************************************************)
Durations == {-1, 2}

ClockStarts == {0, 10}

MaxAllocTasks == 2

MaxAllocDeps == 1

MaxAllocResources == 1

InitAlloc ==
    /\ projects = 1
    /\ tasks \in SeqsUpTo({Task(1, d, DefaultPriority, {}) : d \in Durations},
                          MaxAllocTasks)
    /\ task_dependencies \in
          SeqsUpTo({TaskDependency(p, s) : p, s \in 1..Len(tasks)},
                   MaxAllocDeps)
    /\ resources \in SeqsUpTo({Resource(EMPLOYEE, {}, a) : a \in BOOLEAN},
                          MaxAllocResources)
    /\ task_allocations = <<>>
    /\ response = NoResponse
    /\ threads = <<>>

NextAlloc ==
    \E project_id \in 1..(projects + 1), now \in ClockStarts :
        auto_allocate(project_id, now)

SpecAlloc == InitAlloc /\ [][NextAlloc]_vars

(***************************************************************************)
(* SpecMatch: auto_allocate on every project within the bounds whose tasks *)
(* differ in required skills, over every roster of resources within the    *)
(* bounds.  A resource is created available; update_availability sets the  *)
(* flag.                                                                   *)
(***************************************************************************)
SkillSets == {{}, {"python"}, {"python", "sql"}}

MaxMatchTasks == 1

MaxMatchResources == 2

InitMatch ==
    /\ projects = 1
    /\ tasks \in SeqsUpTo({Task(1, 1, DefaultPriority, sk) :
                              sk \in SkillSets}, MaxMatchTasks)
    /\ task_dependencies = <<>>
    /\ resources \in
          SeqsUpTo({Resource(type, sk, a) : type \in {EMPLOYEE, EQUIPMENT},
                        sk \in SkillSets, a \in BOOLEAN},
                   MaxMatchResources)
    /\ task_allocations = <<>>
    /\ response = NoResponse
    /\ threads = <<>>

NextMatch ==
    \E project_id \in 1..(projects + 1) : auto_allocate(project_id, 0)

SpecMatch == InitMatch /\ [][NextMatch]_vars

(***************************************************************************)
(* SpecSchedule: a project is built through the API, its tasks created and *)
(* updated with the durations a request may carry, linked from an earlier  *)
(* task to a later one, and allocated to one available employee.           *)
(***************************************************************************)
InitSchedule ==
    /\ projects = 1
    /\ tasks = <<>>
    /\ task_dependencies = <<>>
    /\ resources = <<Resource(EMPLOYEE, {}, TRUE)>>
    /\ task_allocations = <<>>
    /\ response = NoResponse
    /\ threads = <<>>

NextSchedule ==
    \/ \E d \in Durations : create_task(1, d, DefaultPriority, {})
    \/ \E task_id \in 1..(Len(tasks) + 1), d \in Durations :
          update_task(task_id, d, DefaultPriority, {})
    \/ \E p \in 1..Len(tasks) : \E s \in (p + 1)..Len(tasks) :
          create_dependency(p, s)
    \/ auto_allocate(1, 0)

SpecSchedule == InitSchedule /\ [][NextSchedule]_vars

(***************************************************************************)
(* Concurrent requests.  A thread runs one request; between two accesses   *)
(* to the database another thread may run.  create_dependency: the lookup  *)
(* of the two tasks, the insert (db.add, first db.commit), the cycle       *)
(* check, the finish (db.rollback or second db.commit).  auto_allocate:    *)
(* the gate (project lookup and has_cycle), the run of allocate_resources  *)
(* up to its last db.add, the commit.                                      *)
(***************************************************************************)
Threads == {1, 2}

Idle == [pc |-> "idle"]

Done(reply) == [pc |-> "done", op |-> reply.op, args |-> reply.args,
                response |-> reply]

\* Variant: the session keeps reading the rows as they were at its first
\* query, and its own row.
visible_dependencies_at_lookup(t) ==
    Append(threads[t].snapshot,
           TaskDependency(threads[t].args[1], threads[t].args[2]))

\* The rows the has_cycle queries of create_dependency read: all that is
\* committed, by whichever session.
visible_dependencies(t) == task_dependencies

finish_thread(t, reply) ==
    /\ threads' = [threads EXCEPT ![t] = Done(reply)]
    /\ response' = reply

dependency_lookup(t, predecessor_task_id, successor_task_id) ==
    LET args == <<predecessor_task_id, successor_task_id>>
        found == /\ predecessor_task_id \in 1..Len(tasks)
                 /\ successor_task_id \in 1..Len(tasks)
    IN
    /\ threads[t].pc = "idle"
    /\ IF ~found
       THEN finish_thread(t, Reply("create_dependency", args, 404,
                                   "One or both tasks not found", <<>>))
       ELSE IF different_projects(tasks[predecessor_task_id],
                                  tasks[successor_task_id])
       THEN finish_thread(t, Reply("create_dependency", args, 400,
                                "Tasks must be in the same project", <<>>))
       ELSE /\ threads' = [threads EXCEPT ![t] =
                    [pc |-> "insert", op |-> "create_dependency",
                     args |-> args, snapshot |-> task_dependencies]]
            /\ UNCHANGED response
    /\ UNCHANGED <<projects, tasks, task_dependencies, resources,
                   task_allocations>>

dependency_insert(t) ==
    /\ threads[t].pc = "insert"
    /\ LET new_dep == TaskDependency(threads[t].args[1], threads[t].args[2])
           committed == db_commit(task_dependencies, <<new_dep>>)
       IN  /\ task_dependencies' = committed
           /\ threads' = [threads EXCEPT ![t] =
                   [pc |-> "check", op |-> @.op, args |-> @.args,
                    snapshot |-> @.snapshot, id |-> Len(committed)]]
    /\ UNCHANGED <<projects, tasks, resources, task_allocations, response>>

dependency_check(t) ==
    /\ threads[t].pc = "check"
    /\ threads' = [threads EXCEPT ![t] =
            [pc |-> "finish", op |-> @.op, args |-> @.args,
             snapshot |-> @.snapshot, id |-> @.id,
             cycle |-> has_cycle(tasks, visible_dependencies(t),
                                 tasks[@.args[1]].project_id)]]
    /\ UNCHANGED <<projects, tasks, task_dependencies, resources,
                   task_allocations, response>>

dependency_finish(t) ==
    /\ threads[t].pc = "finish"
    /\ IF threads[t].cycle
       THEN /\ task_dependencies' = db_rollback(task_dependencies, <<>>)
            /\ finish_thread(t, Reply("create_dependency", threads[t].args,
                        400, "This dependency creates a cycle", <<>>))
       ELSE /\ task_dependencies' = db_commit(task_dependencies, <<>>)
            /\ finish_thread(t, Reply("create_dependency", threads[t].args,
                        200, "Dependency created successfully",
                        threads[t].id))
    /\ UNCHANGED <<projects, tasks, resources, task_allocations>>

allocate_gate(t, project_id) ==
    /\ threads[t].pc = "idle"
    /\ IF project_id \notin 1..projects
       THEN finish_thread(t, Reply("auto_allocate", <<project_id>>, 404,
                                   "Project not found", <<>>))
       ELSE IF has_cycle(tasks, task_dependencies, project_id)
       THEN finish_thread(t, Reply("auto_allocate", <<project_id>>, 400,
                "Cannot allocate: project has circular dependencies", <<>>))
       ELSE /\ threads' = [threads EXCEPT ![t] =
                    [pc |-> "allocate", op |-> "auto_allocate",
                     args |-> <<project_id>>]]
            /\ UNCHANGED response
    /\ UNCHANGED <<projects, tasks, task_dependencies, resources,
                   task_allocations>>

allocate_run(t, now) ==
    /\ threads[t].pc = "allocate"
    /\ LET args == <<threads[t].args[1], now>>
           outcome == allocate_resources(tasks, task_dependencies, resources,
                                         args[1], now)
       IN  IF outcome.status # 200
           THEN finish_thread(t, Reply("auto_allocate", args, outcome.status,
                                       outcome.detail, <<>>))
           ELSE /\ threads' = [threads EXCEPT ![t] =
                        [pc |-> "commit", op |-> "auto_allocate",
                         args |-> args, pending |-> outcome.allocations]]
                /\ UNCHANGED response
    /\ UNCHANGED <<projects, tasks, task_dependencies, resources,
                   task_allocations>>

allocate_commit(t) ==
    /\ threads[t].pc = "commit"
    /\ task_allocations' = db_commit(task_allocations, threads[t].pending)
    /\ finish_thread(t, Reply("auto_allocate", threads[t].args, 200, "",
                              threads[t].pending))
    /\ UNCHANGED <<projects, tasks, task_dependencies, resources>>

(***************************************************************************)
(* SpecConc: two concurrent requests, each a create_dependency or an       *)
(* auto_allocate, on every project within the bounds that has one          *)
(* available employee.                                                     *)
(***************************************************************************)
MaxConcTasks == 2

MaxConcDeps == 1

InitConc ==
    /\ projects = 1
    /\ tasks \in SeqsUpTo({Task(1, 2, DefaultPriority, {})}, MaxConcTasks)
    /\ task_dependencies \in
          SeqsUpTo({TaskDependency(p, s) : p, s \in 1..Len(tasks)},
                   MaxConcDeps)
    /\ resources = <<Resource(EMPLOYEE, {}, TRUE)>>
    /\ task_allocations = <<>>
    /\ response = NoResponse
    /\ threads = [t \in Threads |-> Idle]

NextConc ==
    \E t \in Threads :
        \/ \E p \in 1..(Len(tasks) + 1), s \in 1..(Len(tasks) + 1) :
              dependency_lookup(t, p, s)
        \/ dependency_insert(t)
        \/ dependency_check(t)
        \/ dependency_finish(t)
        \/ \E project_id \in 1..(projects + 1) : allocate_gate(t, project_id)
        \/ \E now \in ClockStarts : allocate_run(t, now)
        \/ allocate_commit(t)

SpecConc == InitConc /\ [][NextConc]_vars

(***************************************************************************)
(* Graph notions the claims are stated in, independent of the algorithms.  *)
(***************************************************************************)
\* The directed edges of the project, as a set of pairs.
Edges(T, D, project_id) ==
    {<<d.predecessor_task_id, d.successor_task_id>> :
        d \in Range(project_dependencies(T, D, project_id))}

RECURSIVE TransitiveClosure(_)
TransitiveClosure(E) ==
    LET joined ==
            {<<ab[1][1], ab[2][2]>> :
                ab \in {xy \in E \X E : xy[1][2] = xy[2][1]}}
    IN  IF joined \subseteq E THEN E ELSE TransitiveClosure(E \cup joined)

ContainsCycle(E) == \E e \in TransitiveClosure(E) : e[1] = e[2]

StoredEdges(project_id) == Edges(tasks, task_dependencies, project_id)

Position(seq, x) == CHOOSE i \in 1..Len(seq) : seq[i] = x

IsPermutationOf(seq, S) ==
    /\ Len(seq) = Cardinality(S)
    /\ Range(seq) = S

ProjectTaskIds(project_id) == Range(project_tasks(tasks, project_id))

CycleRejected(r) ==
    /\ r.op = "create_dependency"
    /\ r.status = 400
    /\ r.detail = "This dependency creates a cycle"

(***************************************************************************)
(* C1: when create_dependency answers 400 'This dependency creates a       *)
(* cycle', the stored dependencies are the ones stored before the call.    *)
(***************************************************************************)
C1_RejectedEdgeRolledBack ==
    [][CycleRejected(response') => task_dependencies' = task_dependencies]_vars

(***************************************************************************)
(* C2: in every reachable state the stored dependency edges of every       *)
(* project form an acyclic graph.                                          *)
(***************************************************************************)
C2_StoredGraphAcyclic ==
    \A project_id \in 1..projects : ~ContainsCycle(StoredEdges(project_id))

(***************************************************************************)
(* C3: has_cycle returns TRUE exactly when the project's dependency graph  *)
(* contains a directed cycle.                                              *)
(***************************************************************************)
C3_HasCycleExact ==
    response.op = "has_cycle" =>
        response.body = ContainsCycle(StoredEdges(response.args[1]))

\* has_cycle answered FALSE on a diamond: some task is reached along an edge
\* a -> c and along a path a -> b -> c.
C3_Witness ==
    /\ response.op = "has_cycle"
    /\ response.body = FALSE
    /\ \E a, b, c \in ProjectTaskIds(1) :
          /\ Cardinality({a, b, c}) = 3
          /\ {<<a, b>>, <<b, c>>, <<a, c>>} \subseteq StoredEdges(1)

(***************************************************************************)
(* C4: on an acyclic graph topological_sort returns every task of the      *)
(* project exactly once, each predecessor before its successor.            *)
(***************************************************************************)
C4_TopologicalOrder ==
    (/\ response.op = "topological_sort"
     /\ ~ContainsCycle(StoredEdges(response.args[1])))
    => /\ IsPermutationOf(response.body, ProjectTaskIds(response.args[1]))
       /\ \A e \in StoredEdges(response.args[1]) :
             Position(response.body, e[1]) < Position(response.body, e[2])

\* topological_sort ran on an acyclic graph of three tasks that stores one
\* edge twice.
C4_Witness ==
    /\ response.op = "topological_sort"
    /\ ~ContainsCycle(StoredEdges(1))
    /\ Len(response.body) = 3
    /\ \E i, j \in 1..Len(task_dependencies) :
          i # j /\ task_dependencies[i] = task_dependencies[j]

ReadyAfter(emitted, project_id) ==
    {t \in ProjectTaskIds(project_id) \ emitted :
        \A e \in StoredEdges(project_id) : e[2] = t => e[1] \in emitted}

C6_HighestPriorityReadyFirst ==
    response.op = "topological_sort" =>
        \A i \in 1..Len(response.body) :
            LET emitted == {response.body[j] : j \in 1..(i - 1)}
                ready == ReadyAfter(emitted, response.args[1])
            IN  /\ response.body[i] \in ready
                /\ \A r \in ready :
                      tasks[response.body[i]].priority >= tasks[r].priority

\* Two tasks were ready at some step and the one emitted has the higher
\* priority and the higher id.
C6_Witness ==
    /\ response.op = "topological_sort"
    /\ \E i \in 1..Len(response.body) :
          \E r \in ReadyAfter({response.body[j] : j \in 1..(i - 1)}, 1) :
              /\ r < response.body[i]
              /\ tasks[r].priority < tasks[response.body[i]].priority

Allocated(r) == r.op = "auto_allocate" /\ r.status = 200

(***************************************************************************)
(* C7: in the allocations one call returns, each ends no later than the    *)
(* next starts, the first starts at the clock start, and each lasts the    *)
(* estimated_duration of its task.                                         *)
(***************************************************************************)
C7_ClockMonotone ==
    Allocated(response) =>
        LET out == response.body
        IN  /\ \A i \in 1..(Len(out) - 1) :
                  out[i].scheduled_end <= out[i + 1].scheduled_start
            /\ (out # <<>> => out[1].scheduled_start = response.args[2])
            /\ \A i \in 1..Len(out) :
                  out[i].scheduled_end - out[i].scheduled_start
                     = tasks[out[i].task_id].estimated_duration

\* A call at clock start 10 returned allocations for two tasks that differ
\* in duration, the first of them with a negative duration.
C7_Witness ==
    /\ Allocated(response)
    /\ response.args[2] = 10
    /\ Len(response.body) = 2
    /\ tasks[response.body[1].task_id].estimated_duration < 0
    /\ tasks[response.body[2].task_id].estimated_duration > 0

(***************************************************************************)
(* C8 as stated: if some available resource has all the skills a task      *)
(* requires, the resource chosen for the task has them all.                *)
(***************************************************************************)
AvailableIds == Range(available_resources(resources))

HasSkillsFor(resource_id, task_id) ==
    tasks[task_id].required_skills \subseteq resources[resource_id].skills

C8_ChosenHasSkills ==
    Allocated(response) =>
        \A i \in 1..Len(response.body) :
            LET a == response.body[i]
            IN  (\E r \in AvailableIds : HasSkillsFor(r, a.task_id))
                   => HasSkillsFor(a.resource_id, a.task_id)

(***************************************************************************)
(* C8 amended: if some available employee has all the skills a task        *)
(* requires, the resource chosen for the task has them all.                *)
(***************************************************************************)
C8_ChosenHasSkillsIfEmployeeMatches ==
    Allocated(response) =>
        \A i \in 1..Len(response.body) :
            LET a == response.body[i]
            IN  (\E r \in AvailableIds :
                    /\ resources[r].type = EMPLOYEE
                    /\ HasSkillsFor(r, a.task_id))
                   => HasSkillsFor(a.resource_id, a.task_id)

\* The first available resource lacks a required skill, a later employee
\* has them all, and a task was allocated.
C8_Witness ==
    /\ Allocated(response)
    /\ response.body # <<>>
    /\ \E first, r \in AvailableIds :
          /\ \A x \in AvailableIds : first <= x
          /\ ~HasSkillsFor(first, response.body[1].task_id)
          /\ resources[r].type = EMPLOYEE
          /\ HasSkillsFor(r, response.body[1].task_id)

(***************************************************************************)
(* C9: the chosen resource is the first available employee that has all    *)
(* the required skills of the task, and the first available resource when  *)
(* no available employee has them.                                         *)
(***************************************************************************)
MatchingEmployees(task_id) ==
    {r \in AvailableIds :
        resources[r].type = EMPLOYEE /\ HasSkillsFor(r, task_id)}

Least(S) == CHOOSE x \in S : \A y \in S : x <= y

C9_FirstFit ==
    Allocated(response) =>
        \A i \in 1..Len(response.body) :
            LET a == response.body[i]
            IN  a.resource_id =
                   IF MatchingEmployees(a.task_id) # {}
                   THEN Least(MatchingEmployees(a.task_id))
                   ELSE Least(AvailableIds)

\* A task went to an equipment resource through the fallback while an
\* employee without the required skills was available after it.
C9_Witness ==
    /\ Allocated(response)
    /\ response.body # <<>>
    /\ resources[response.body[1].resource_id].type = EQUIPMENT
    /\ MatchingEmployees(response.body[1].task_id) = {}
    /\ \E r \in AvailableIds : resources[r].type = EMPLOYEE

(***************************************************************************)
(* C10: when no resource is available, an allocate call returns no         *)
(* allocation and leaves allocations, tasks, dependencies and resources as *)
(* they were; when it reaches allocate_resources, it fails with 400 'No    *)
(* available resources'.                                                   *)
(***************************************************************************)
ReachedAllocateResources(r) ==
    /\ r.op = "auto_allocate"
    /\ r.status # 404
    /\ r.detail # "Cannot allocate: project has circular dependencies"

C10_NoResourcesNoChange ==
    [][(/\ response'.op = "auto_allocate"
        /\ \A r \in 1..Len(resources) : ~resources[r].available)
       => /\ response'.status # 200
          /\ response'.body = <<>>
          /\ UNCHANGED <<task_allocations, tasks, task_dependencies,
                         resources>>
          /\ ReachedAllocateResources(response')
                => /\ response'.status = 400
                   /\ response'.detail = "No available resources"]_vars

\* A call on a project with a task failed for lack of resources although
\* the roster is not empty.
C10_Witness ==
    /\ response.op = "auto_allocate"
    /\ response.detail = "No available resources"
    /\ tasks # <<>>
    /\ resources # <<>>
    /\ task_allocations = <<>>

(***************************************************************************)
(* C11: two concurrent create_dependency calls whose edges are each        *)
(* acyclic against the graph stored before them but close a cycle together *)
(* are never both answered 200.                                            *)
(***************************************************************************)
Finished(t, op) ==
    /\ threads[t].pc = "done"
    /\ threads[t].op = op

\* The thread has committed its edge.
Inserted(t) ==
    /\ threads[t].pc \in {"check", "finish", "done"}
    /\ threads[t].op = "create_dependency"
    /\ threads[t].pc = "done" =>
          threads[t].response.detail \in
             {"This dependency creates a cycle",
              "Dependency created successfully"}

RequestedEdge(t) == TaskDependency(threads[t].args[1], threads[t].args[2])

\* The dependencies stored before any thread inserted.
BaseDependencies ==
    SubSeq(task_dependencies, 1,
           Len(task_dependencies)
              - Cardinality({t \in Threads : Inserted(t)}))

CyclicWith(new_deps) ==
    ContainsCycle(Edges(tasks, BaseDependencies \o new_deps, 1))

JointlyCyclic(t1, t2) ==
    /\ t1 # t2
    /\ Finished(t1, "create_dependency") /\ Inserted(t1)
    /\ Finished(t2, "create_dependency") /\ Inserted(t2)
    /\ ~CyclicWith(<<RequestedEdge(t1)>>)
    /\ ~CyclicWith(<<RequestedEdge(t2)>>)
    /\ CyclicWith(<<RequestedEdge(t1), RequestedEdge(t2)>>)

C11_NotBothAccepted ==
    \A t1, t2 \in Threads :
        JointlyCyclic(t1, t2) =>
            ~(/\ threads[t1].response.status = 200
              /\ threads[t2].response.status = 200)

\* Both calls inserted before either checked, and both were rejected.
C11_Witness ==
    \E t1, t2 \in Threads :
        /\ JointlyCyclic(t1, t2)
        /\ threads[t1].response.status = 400
        /\ threads[t2].response.status = 400

(***************************************************************************)
(* C12: two allocate calls for the same project never run their steps      *)
(* interleaved, and never both commit allocations that book the same       *)
(* resource for overlapping intervals.                                     *)
(***************************************************************************)
Allocating(t, project_id) ==
    /\ threads[t].pc \in {"allocate", "commit"}
    /\ threads[t].args[1] = project_id

Overlap(a, b) ==
    /\ a.resource_id = b.resource_id
    /\ a.scheduled_start < b.scheduled_end
    /\ b.scheduled_start < a.scheduled_end

C12_AllocationSerialized ==
    \A t1, t2 \in Threads : \A project_id \in 1..projects :
        t1 # t2 =>
            /\ ~(Allocating(t1, project_id) /\ Allocating(t2, project_id))
            /\ (/\ Finished(t1, "auto_allocate")
                /\ Finished(t2, "auto_allocate")
                /\ threads[t1].args[1] = project_id
                /\ threads[t2].args[1] = project_id)
               => \A a \in Range(threads[t1].response.body),
                     b \in Range(threads[t2].response.body) : ~Overlap(a, b)

(***************************************************************************)
(* C13: an allocate call answered 200 has committed exactly one allocation *)
(* for every task of the project.                                          *)
(***************************************************************************)
C13_OneAllocationPerTask ==
    \A t \in Threads :
        (/\ Finished(t, "auto_allocate")
         /\ threads[t].response.status = 200)
        => \A task_id \in Range(project_tasks(tasks, threads[t].args[1])) :
              Cardinality({i \in 1..Len(threads[t].response.body) :
                    threads[t].response.body[i].task_id = task_id}) = 1

(***************************************************************************)
(* C14: in the allocations one successful call returns, for every          *)
(* dependency p -> s of the project the allocation of p ends no later than *)
(* the allocation of s starts.                                             *)
(***************************************************************************)
C14_PredecessorEndsFirst ==
    Allocated(response) =>
        \A d \in Range(project_dependencies(tasks, task_dependencies,
                                            response.args[1])) :
            \A a, b \in Range(response.body) :
                (/\ a.task_id = d.predecessor_task_id
                 /\ b.task_id = d.successor_task_id)
                => a.scheduled_end <= b.scheduled_start

OnCycle(project_id) ==
    {t \in ProjectTaskIds(project_id) :
        <<t, t>> \in TransitiveClosure(StoredEdges(project_id))}

BehindCycle(project_id) ==
    {t \in ProjectTaskIds(project_id) :
        \E c \in OnCycle(project_id) :
            <<c, t>> \in TransitiveClosure(StoredEdges(project_id))}

C18_FullLengthIffAcyclic ==
    response.op = "topological_sort" =>
        LET out == response.body
            project_id == response.args[1]
            count == Len(project_tasks(tasks, project_id))
        IN  /\ response.detail = "returned"
            /\ Len(out) = count <=> ~ContainsCycle(StoredEdges(project_id))
            /\ Len(out) <= count
            /\ Range(out) \subseteq ProjectTaskIds(project_id)
            /\ Cardinality(Range(out)) = Len(out)
            /\ Range(out) \cap OnCycle(project_id) = {}
            /\ Range(out) \cap BehindCycle(project_id) = {}

\* topological_sort ran on a self-loop of task 1 with an edge to task 2 and
\* returned the third task only: task 2 is on no cycle but behind one.
C18_Witness ==
    /\ response.op = "topological_sort"
    /\ Len(tasks) = 3
    /\ StoredEdges(1) = {<<1, 1>>, <<1, 2>>}
    /\ response.body = <<3>>

(***************************************************************************)
(* C17: in the allocations one call returns no allocation ends before it   *)
(* starts and no allocation starts before the one returned before it, the  *)
(* tasks being those create_task and update_task stored.                   *)
(***************************************************************************)
C17_ClockNonDecreasing ==
    Allocated(response) =>
        LET out == response.body
        IN  /\ \A i \in 1..Len(out) :
                  out[i].scheduled_start <= out[i].scheduled_end
            /\ \A i \in 1..(Len(out) - 1) :
                  out[i].scheduled_start <= out[i + 1].scheduled_start

(***************************************************************************)
(* C19: every stored dependency links two tasks of one project; a          *)
(* create_dependency naming a task that does not exist is answered 404,    *)
(* one naming tasks of two projects is answered 400, and both leave every  *)
(* table as it was.                                                        *)
(***************************************************************************)
WithinProject(T, d) ==
    /\ d.predecessor_task_id \in 1..Len(T)
    /\ d.successor_task_id \in 1..Len(T)
    /\ T[d.predecessor_task_id].project_id = T[d.successor_task_id].project_id

C19_EdgesWithinProject ==
    [][/\ \A d \in Range(task_dependencies') : WithinProject(tasks', d)
       /\ response'.op = "create_dependency" =>
            LET d == TaskDependency(response'.args[1], response'.args[2])
                missing == \E id \in {d.predecessor_task_id,
                                      d.successor_task_id} :
                               id \notin 1..Len(tasks)
            IN  /\ missing =>
                     /\ response'.status = 404
                     /\ UNCHANGED <<projects, tasks, task_dependencies,
                                    resources, task_allocations>>
                /\ (~missing /\ ~WithinProject(tasks, d)) =>
                     /\ response'.status = 400
                     /\ response'.detail = "Tasks must be in the same project"
                     /\ UNCHANGED <<projects, tasks, task_dependencies,
                                    resources, task_allocations>>]_vars

\* With a dependency stored in one project, a create_dependency between
\* tasks of two projects was answered 400.
C19_Witness ==
    /\ response.op = "create_dependency"
    /\ response.status = 400
    /\ response.detail = "Tasks must be in the same project"
    /\ tasks[response.args[1]].project_id # tasks[response.args[2]].project_id
    /\ task_dependencies # <<>>

(***************************************************************************)
(* C20 as stated: a task that requires no skills is allocated the first    *)
(* available resource.                                                     *)
(***************************************************************************)
C20_EmptySkillsFirstAvailable ==
    Allocated(response) =>
        \A i \in 1..Len(response.body) :
            LET a == response.body[i]
            IN  tasks[a.task_id].required_skills = {}
                   => a.resource_id = Least(AvailableIds)

(***************************************************************************)
(* C20 amended: a task that requires no skills is allocated the first      *)
(* available employee, and the first available resource when no employee   *)
(* is available.                                                           *)
(***************************************************************************)
AvailableEmployees == {r \in AvailableIds : resources[r].type = EMPLOYEE}

C20_EmptySkillsFirstEmployee ==
    Allocated(response) =>
        \A i \in 1..Len(response.body) :
            LET a == response.body[i]
            IN  tasks[a.task_id].required_skills = {}
                   => a.resource_id =
                         IF AvailableEmployees # {}
                         THEN Least(AvailableEmployees)
                         ELSE Least(AvailableIds)

\* A task that requires no skills was allocated the second resource, an
\* employee without skills, the first being available equipment.
C20_Witness ==
    /\ Allocated(response)
    /\ Len(response.body) = 1
    /\ tasks[response.body[1].task_id].required_skills = {}
    /\ response.body[1].resource_id = 2
    /\ resources[1].type = EQUIPMENT
    /\ resources[1].available
    /\ resources[2].skills = {}

(***************************************************************************)
(* C21: create_dependency answers 'This dependency creates a cycle' only   *)
(* if the requested edge closes a cycle with the accepted edges: its two   *)
(* tasks are the same, or its successor reaches its predecessor along      *)
(* accepted edges.  The accepted edges are those stored before the calls   *)
(* (an acyclic table holds accepted edges only) and those of the calls     *)
(* answered 200.  The formula looks at the states in which no call is      *)
(* under way.                                                              *)
(***************************************************************************)
Rejected(t) ==
    /\ Finished(t, "create_dependency")
    /\ threads[t].response.detail = "This dependency creates a cycle"

Accepted(t) ==
    /\ Finished(t, "create_dependency")
    /\ threads[t].response.status = 200

AcceptedEdges ==
    Edges(tasks, BaseDependencies, 1)
       \cup {<<threads[t].args[1], threads[t].args[2]>> :
                t \in {u \in Threads : Accepted(u)}}

ClosesCycle(E, predecessor_task_id, successor_task_id) ==
    \/ predecessor_task_id = successor_task_id
    \/ <<successor_task_id, predecessor_task_id>> \in TransitiveClosure(E)

Quiescent == \A t \in Threads : threads[t].pc \in {"idle", "done"}

C21_RejectedOnlyIfClosesCycle ==
    (/\ Quiescent
     /\ ~ContainsCycle(Edges(tasks, BaseDependencies, 1)))
    => \A t \in Threads :
          Rejected(t) => ClosesCycle(AcceptedEdges, threads[t].args[1],
                                     threads[t].args[2])

(***************************************************************************)
(* C22: an allocate call answered 200 leaves the allocations stored before *)
(* it as they were and adds exactly one for every task of the project, so  *)
(* that the schedule of the project lists one allocation more for every    *)
(* task after every such call.                                             *)
(***************************************************************************)
ListedFor(schedule, task_id) ==
    Cardinality({i \in 1..Len(schedule) : schedule[i].task_id = task_id})

C22_AllocationsAccumulate ==
    [][\A t \in Threads :
          (/\ threads[t].pc = "commit"
           /\ Finished(t, "auto_allocate")'
           /\ threads'[t].response.status = 200)
          => LET project_id == threads[t].args[1]
                 before == get_schedule(tasks, task_allocations, project_id)
                 after == get_schedule(tasks', task_allocations', project_id)
             IN  /\ Len(task_allocations') >= Len(task_allocations)
                 /\ SubSeq(task_allocations', 1, Len(task_allocations))
                       = task_allocations
                 /\ \A task_id \in Range(project_tasks(tasks, project_id)) :
                       ListedFor(after, task_id)
                          = ListedFor(before, task_id) + 1]_vars

=============================================================================
